---- MODULE Spec2Model ----
(***************************************************************************)
(* The girlvoice vocoder DSP (src/simulator/src/dsp.rs): band-pass biquad, *)
(* envelope follower, vocoder channel and the multi-channel analyzer with  *)
(* its peak-normalised energies.                                           *)
(*                                                                         *)
(* Numbers.  The code computes in f32.  The model computes in a binary     *)
(* floating-point format with the same structure: sign, significand,       *)
(* exponent, signed zeros, subnormals, +-infinity and NaN, the f32         *)
(* exponent range, and round-to-nearest-even after every operation.  Only  *)
(* the significand is narrower (MantBits bits instead of 24) so that the   *)
(* exact intermediate of every operation fits a TLC integer.  A finite     *)
(* value is [c |-> "fin", s, m, e] and stands for (-1)^s * m * 2^e.        *)
(***************************************************************************)
EXTENDS Integers, Sequences, FiniteSets, TLC

\* width of the significand (f32: 24)
MantBits == 14
\* exponent of the unit in the last place of the smallest / largest normal
\* numbers (f32: normal exponents -126 .. 127)
EminQ == (0 - 126) - (MantBits - 1)
EmaxQ == 127 - (MantBits - 1)

\* the number of bits of M, for 0 <= M < 2^31
BitLen(M) ==
    IF M < 65536
    THEN IF M < 256
         THEN IF M < 16
              THEN IF M < 4
                   THEN IF M < 2 THEN M ELSE 2
                   ELSE IF M < 8 THEN 3 ELSE 4
              ELSE IF M < 64
                   THEN IF M < 32 THEN 5 ELSE 6
                   ELSE IF M < 128 THEN 7 ELSE 8
         ELSE IF M < 4096
              THEN IF M < 1024
                   THEN IF M < 512 THEN 9 ELSE 10
                   ELSE IF M < 2048 THEN 11 ELSE 12
              ELSE IF M < 16384
                   THEN IF M < 8192 THEN 13 ELSE 14
                   ELSE IF M < 32768 THEN 15 ELSE 16
    ELSE IF M < 16777216
         THEN IF M < 1048576
              THEN IF M < 262144
                   THEN IF M < 131072 THEN 17 ELSE 18
                   ELSE IF M < 524288 THEN 19 ELSE 20
              ELSE IF M < 4194304
                   THEN IF M < 2097152 THEN 21 ELSE 22
                   ELSE IF M < 8388608 THEN 23 ELSE 24
         ELSE IF M < 268435456
              THEN IF M < 67108864
                   THEN IF M < 33554432 THEN 25 ELSE 26
                   ELSE IF M < 134217728 THEN 27 ELSE 28
              ELSE IF M < 1073741824
                   THEN IF M < 536870912 THEN 29 ELSE 30
                   ELSE 31

NaN == [c |-> "nan", s |-> 0, m |-> 0, e |-> 0]
Inf(s) == [c |-> "inf", s |-> s, m |-> 0, e |-> 0]
Zero(s) == [c |-> "fin", s |-> s, m |-> 0, e |-> EminQ]
Fin(s, m, e) == [c |-> "fin", s |-> s, m |-> m, e |-> e]

IsNaN(a) == a.c = "nan"
IsInf(a) == a.c = "inf"
IsFin(a) == a.c = "fin"
IsZero(a) == a.c = "fin" /\ a.m = 0
Xor(s, t) == IF s = t THEN 0 ELSE 1
MaxInt(i, j) == IF i > j THEN i ELSE j
AbsInt(i) == IF i < 0 THEN 0 - i ELSE i

\* (-1)^s * m * 2^e as a float: overflow gives infinity
Pack(s, m, e) ==
    IF m = 0 THEN Zero(s)
    ELSE IF e > EmaxQ THEN Inf(s)
    ELSE Fin(s, m, e)

\* a rounded significand that reached 2^MantBits moves to the next exponent
Carry(s, m, e) ==
    IF m = 2 ^ MantBits THEN Pack(s, 2 ^ (MantBits - 1), e + 1) ELSE Pack(s, m, e)

\* quotient q with remainder r of a division by 2 * half, rounded to nearest,
\* ties to even; sticky: the exact value lies strictly above q + r / (2 half)
RoundQuot(q, r, half, sticky) ==
    IF r > half \/ (r = half /\ (sticky \/ q % 2 = 1)) THEN q + 1 ELSE q

\* M * 2^E with its last sh bits rounded away (sh > 0), or shifted left
RoundShift(s, M, E, sticky, sh) ==
    IF sh <= 0 THEN Pack(s, M * 2 ^ (0 - sh), E + sh)
    ELSE IF sh > 30 THEN Zero(s)
    ELSE Carry(s, RoundQuot(M \div 2 ^ sh, M % 2 ^ sh, 2 ^ (sh - 1), sticky), E + sh)

\* The float nearest to (-1)^s * M * 2^E (ties to even), for 0 <= M < 2^31;
\* sticky says that the exact magnitude lies strictly between M * 2^E and
\* (M + 1) * 2^E.  Below the normal range the result is subnormal.
RoundPack(s, M, E, sticky) ==
    IF M = 0 THEN Zero(s)
    ELSE RoundShift(s, M, E, sticky, MaxInt(BitLen(M) - MantBits, EminQ - E))

\* usize as f32
FromInt(n) == RoundPack(0, n, 0, FALSE)

\* -x
FNeg(a) == IF IsNaN(a) THEN NaN ELSE [a EXCEPT !.s = 1 - a.s]

\* f32::abs
FAbs(a) == IF IsNaN(a) THEN NaN ELSE [a EXCEPT !.s = 0]

\* |a| < |b| for finite a, b (subnormals share the exponent EminQ)
MagLt(a, b) == a.e < b.e \/ (a.e = b.e /\ a.m < b.m)

\* a < b; false when either is NaN
FLt(a, b) ==
    IF IsNaN(a) \/ IsNaN(b) THEN FALSE
    ELSE IF IsZero(a) /\ IsZero(b) THEN FALSE
    ELSE IF a.s # b.s THEN a.s = 1
    ELSE IF IsInf(a) \/ IsInf(b)
         THEN IF a.s = 0 THEN IsFin(a) /\ IsInf(b) ELSE IsInf(a) /\ IsFin(b)
    ELSE IF a.s = 0 THEN MagLt(a, b) ELSE MagLt(b, a)

\* a > b
FGt(a, b) == FLt(b, a)

\* a == b as f32 compares (NaN equals nothing, -0 equals +0)
FEq(a, b) ==
    /\ ~IsNaN(a)
    /\ ~IsNaN(b)
    /\ (a = b \/ (IsZero(a) /\ IsZero(b)))

\* a <= b
FLe(a, b) == FLt(a, b) \/ FEq(a, b)

\* a * b
FMul(a, b) ==
    IF IsNaN(a) \/ IsNaN(b) THEN NaN
    ELSE IF IsInf(a) \/ IsInf(b)
         THEN IF IsZero(a) \/ IsZero(b) THEN NaN ELSE Inf(Xor(a.s, b.s))
    ELSE RoundPack(Xor(a.s, b.s), a.m * b.m, a.e + b.e, FALSE)

Signed(a) == IF a.s = 1 THEN 0 - a.m ELSE a.m

\* the float nearest to S * 2^e, S an integer; an exact zero sum is +0
PackSigned(S, e) ==
    IF S = 0 THEN Zero(0)
    ELSE RoundPack(IF S < 0 THEN 1 ELSE 0, AbsInt(S), e, FALSE)

\* hi + lo for finite non-zero hi, lo with hi.e >= lo.e.  When the exponents
\* are MantBits + 2 or more apart, lo is below a quarter of hi's last place.
AddAligned(hi, lo) ==
    IF hi.e - lo.e >= MantBits + 2 THEN hi
    ELSE PackSigned(Signed(hi) * 2 ^ (hi.e - lo.e) + Signed(lo), lo.e)

\* a + b
FAdd(a, b) ==
    IF IsNaN(a) \/ IsNaN(b) THEN NaN
    ELSE IF IsInf(a) \/ IsInf(b)
         THEN IF IsInf(a) /\ IsInf(b)
              THEN IF a.s = b.s THEN a ELSE NaN
              ELSE IF IsInf(a) THEN a ELSE b
    ELSE IF IsZero(a) /\ IsZero(b)
         THEN IF a.s = 1 /\ b.s = 1 THEN Zero(1) ELSE Zero(0)
    ELSE IF IsZero(a) THEN b
    ELSE IF IsZero(b) THEN a
    ELSE AddAligned(IF a.e >= b.e THEN a ELSE b, IF a.e >= b.e THEN b ELSE a)

\* a - b
FSub(a, b) == FAdd(a, FNeg(b))

\* N / d for integers, as a float scaled by 2^e
DivQuot(s, N, d, e) == RoundPack(s, N \div d, e, N % d # 0)

\* a / b for finite non-zero a, b, the dividend shifted left by k bits
DivShifted(a, b, k) == DivQuot(Xor(a.s, b.s), a.m * 2 ^ k, b.m, (a.e - k) - b.e)

\* a / b
FDiv(a, b) ==
    IF IsNaN(a) \/ IsNaN(b) THEN NaN
    ELSE IF IsInf(a) THEN IF IsInf(b) THEN NaN ELSE Inf(Xor(a.s, b.s))
    ELSE IF IsInf(b) THEN Zero(Xor(a.s, b.s))
    ELSE IF IsZero(b) THEN IF IsZero(a) THEN NaN ELSE Inf(Xor(a.s, b.s))
    ELSE IF IsZero(a) THEN Zero(Xor(a.s, b.s))
    ELSE DivShifted(a, b, (MantBits + 16) - BitLen(a.m))

\* f32::max: the other operand when one is NaN
FMax(a, b) ==
    IF IsNaN(a) THEN b
    ELSE IF IsNaN(b) THEN a
    ELSE IF FLt(a, b) THEN b ELSE a

\* f32::clamp(lo, hi): NaN stays NaN
FClamp(x, lo, hi) ==
    IF FLt(x, lo) THEN lo
    ELSE IF FGt(x, hi) THEN hi
    ELSE x

\* the literal num/den, rounded as the compiler rounds a decimal literal
Lit(num, den) == FDiv(FromInt(num), FromInt(den))

(***************************************************************************)
(* Library functions.  sqrt is computed (correctly rounded, as IEEE 754    *)
(* requires).  ln, exp and tan are tabulated at the arguments the          *)
(* constructors of the modelled configurations reach: each entry is the    *)
(* function's value rounded to the model's precision.  NaN maps to NaN.    *)
(***************************************************************************)
RECURSIVE ISqrtIn(_, _, _)
ISqrtIn(N, lo, hi) ==
    IF lo = hi THEN lo
    ELSE LET mid == (lo + hi + 1) \div 2
         IN IF mid * mid <= N THEN ISqrtIn(N, mid, hi) ELSE ISqrtIn(N, lo, mid - 1)

\* the root of M * 2^E, E even, 2^13 <= M < 2^15
SqrtRound(r, N, E) == RoundPack(0, r, (E - 16) \div 2, r * r # N)
SqrtScaled(M, E) == SqrtRound(ISqrtIn(M * 2 ^ 16, 0, 46340), M * 2 ^ 16, E)
SqrtEven(m, e) == IF e % 2 = 0 THEN SqrtScaled(m, e) ELSE SqrtScaled(2 * m, e - 1)
SqrtNorm(a, k) == SqrtEven(a.m * 2 ^ k, a.e - k)

\* f32::sqrt
sqrt(a) ==
    IF IsNaN(a) THEN NaN
    ELSE IF IsZero(a) THEN a
    ELSE IF a.s = 1 THEN NaN
    ELSE IF IsInf(a) THEN a
    ELSE SqrtNorm(a, MantBits - BitLen(a.m))

\* f32::ln
ln(a) ==
    IF IsNaN(a) THEN NaN
    ELSE CASE a = Fin(0, 9362, -13) -> Fin(0, 8749, -16)    \* ln(1.14282227) = 0.133499146
           [] a = Fin(0, 10825, -11) -> Fin(0, 13640, -13)  \* ln(5.28564453) = 1.66503906
           [] a = Fin(0, 8320, -8) -> Fin(0, 14259, -12)    \* ln(32.5) = 3.48120117

\* f32::exp
exp(a) ==
    IF IsNaN(a) THEN NaN
    ELSE CASE a = Fin(1, 11888, -19) -> Fin(0, 16017, -14)  \* exp(-0.0226745605) = 0.977600098
           [] a = Fin(1, 15217, -24) -> Fin(0, 16369, -14)  \* exp(-0.00090700388) = 0.999084473
           [] a = Fin(0, 8749, -16) -> Fin(0, 9362, -13)    \* exp(0.133499146) = 1.14282227
           [] a = Fin(0, 8752, -16) -> Fin(0, 9362, -13)    \* exp(0.133544922) = 1.14282227
           [] a = Fin(0, 14733, -14) -> Fin(0, 10067, -12)  \* exp(0.899230957) = 2.45776367
           [] a = Fin(0, 13640, -13) -> Fin(0, 10825, -11)  \* exp(1.66503906) = 5.28564453
           [] a = Fin(0, 14259, -12) -> Fin(0, 8320, -8)    \* exp(3.48120117) = 32.5

\* f32::tan
tan(a) ==
    IF IsNaN(a) THEN NaN
    ELSE CASE a = Fin(0, 8369, -23) -> Fin(0, 8369, -23)    \* tan(0.000997662544) = 0.000997662544
           [] a = Fin(0, 10681, -20) -> Fin(0, 10681, -20)  \* tan(0.0101861954) = 0.0101861954
           [] a = Fin(0, 14927, -20) -> Fin(0, 14928, -20)  \* tan(0.0142354965) = 0.0142364502
           [] a = Fin(0, 15708, -19) -> Fin(0, 15713, -19)  \* tan(0.0299606323) = 0.0299701691
           [] a = Fin(0, 9522, -16) -> Fin(0, 9590, -16)    \* tan(0.145294189) = 0.146331787
           [] a = Fin(0, 14426, -16) -> Fin(0, 14664, -16)  \* tan(0.220123291) = 0.223754883
           [] a = Fin(0, 13997, -15) -> Fin(0, 14915, -15)  \* tan(0.427154541) = 0.455169678
           [] a = Fin(0, 12860, -12) -> Fin(1, 16309, -23)  \* tan(3.13964844) = -0.0019441843

\* std::f32::consts::PI (3.1416015625 at this precision)
PI == Fin(0, 12868, -12)

F0 == Zero(0)
F1 == FromInt(1)
F2 == FromInt(2)

(***************************************************************************)
(* dsp.rs.  A Rust array a[0..n] is the sequence <<a[0], ..., a[n-1]>>, so *)
(* the code's x[0] is x[1] here.  A method that mutates self and returns a *)
(* value is an operator returning [self |-> the new self, out |-> value].  *)
(***************************************************************************)
\* let v = ...; body: the body evaluated with its parameter bound to v
Bind(v, body(_)) == body(v)

mel(freq) == FMul(FromInt(1127), ln(FAdd(F1, FDiv(freq, FromInt(700)))))

mel_to_freq(m) == FMul(FromInt(700), FSub(exp(FDiv(m, FromInt(1127))), F1))

\* BandpassIIR::new; its fourth parameter, order, is never read
BandpassIIR_new(low_freq, high_freq, sample_rate) ==
    Bind(FDiv(sample_rate, F2), LAMBDA nyq :
    Bind(FDiv(low_freq, nyq), LAMBDA low :
    Bind(FDiv(high_freq, nyq), LAMBDA high :
    Bind(FSub(high, low), LAMBDA bw :
    Bind(sqrt(FMul(low, high)), LAMBDA center :
    Bind(tan(FMul(PI, center)), LAMBDA omega :
    Bind(tan(FMul(PI, bw)), LAMBDA bw_omega :
    Bind(FDiv(omega, bw_omega), LAMBDA q :
    Bind(FMul(omega, omega), LAMBDA omega_sq :
    Bind(FAdd(FAdd(F1, FDiv(omega, q)), omega_sq), LAMBDA norm :
    Bind(FDiv(FDiv(omega, q), norm), LAMBDA b0 :
    Bind(F0, LAMBDA b1 :
    Bind(FDiv(FNeg(FDiv(omega, q)), norm), LAMBDA b2 :
    Bind(FDiv(FMul(F2, FSub(omega_sq, F1)), norm), LAMBDA a1 :
    Bind(FDiv(FAdd(FSub(F1, FDiv(omega, q)), omega_sq), norm), LAMBDA a2 :
    [b |-> <<b0, b1, b2>>,
     a |-> <<F1, a1, a2>>,
     x |-> <<F0, F0, F0>>,
     y |-> <<F0, F0>>])))))))))))))))

BandpassIIR_process(self, input) ==
    Bind(<<input, self.x[1], self.x[2]>>, LAMBDA x :
    Bind(FSub(FSub(FAdd(FAdd(FMul(self.b[1], x[1]),
                             FMul(self.b[2], x[2])),
                        FMul(self.b[3], x[3])),
                   FMul(self.a[2], self.y[1])),
              FMul(self.a[3], self.y[2])), LAMBDA output :
    [self |-> [self EXCEPT !.x = x, !.y = <<output, self.y[1]>>],
     out |-> output]))

\* a faulty reset that clears the input history only
BandpassIIR_reset_x_only(self) == [self EXCEPT !.x = <<F0, F0, F0>>]

BandpassIIR_reset(self) == [self EXCEPT !.x = <<F0, F0, F0>>, !.y = <<F0, F0>>]

EnvelopeFollower_new(sample_rate, attack_ms, release_ms) ==
    Bind(FDiv(FMul(sample_rate, attack_ms), FromInt(1000)), LAMBDA attack_samples :
    Bind(FDiv(FMul(sample_rate, release_ms), FromInt(1000)), LAMBDA release_samples :
    Bind(exp(FDiv(FNeg(F1), attack_samples)), LAMBDA attack :
    Bind(exp(FDiv(FNeg(F1), release_samples)), LAMBDA release :
    [value |-> F0,
     attack |-> attack,
     release |-> release,
     attack_comp |-> FSub(F1, attack),
     release_comp |-> FSub(F1, release)]))))

EnvelopeFollower_process(self, input) ==
    Bind(FAbs(input), LAMBDA abs_input :
    Bind(FGt(abs_input, self.value), LAMBDA rising :
    Bind(IF rising THEN self.attack ELSE self.release, LAMBDA coeff :
    Bind(IF rising THEN self.attack_comp ELSE self.release_comp, LAMBDA comp :
    Bind(FAdd(FMul(self.value, coeff), FMul(abs_input, comp)), LAMBDA value :
    [self |-> [self EXCEPT !.value = value], out |-> value])))))

EnvelopeFollower_value(self) == self.value

\* a faulty reset that puts every field back to zero
EnvelopeFollower_reset_all(self) ==
    [value |-> F0, attack |-> F0, release |-> F0,
     attack_comp |-> F0, release_comp |-> F0]

EnvelopeFollower_reset(self) == [self EXCEPT !.value = F0]

VocoderChannel_new(low_freq, high_freq, sample_rate) ==
    [bandpass |-> BandpassIIR_new(low_freq, high_freq, sample_rate),
     envelope |-> EnvelopeFollower_new(sample_rate, F1, FromInt(25)),
     center_freq |-> FDiv(FAdd(low_freq, high_freq), F2),
     low_freq |-> low_freq,
     high_freq |-> high_freq]

VocoderChannel_process(self, input) ==
    Bind(BandpassIIR_process(self.bandpass, input), LAMBDA filtered :
    Bind(EnvelopeFollower_process(self.envelope, filtered.out), LAMBDA followed :
    [self |-> [self EXCEPT !.bandpass = filtered.self, !.envelope = followed.self],
     out |-> followed.out]))

\* bandwidth_param
BandwidthParam == Lit(35, 1000)
\* the peak's decay factor per sample and its floor
PeakDecay == Lit(9999, 10000)
PeakFloor == Lit(1, 1000)

\* channel i's mel position (i counted from 1)
ChannelMel(i, num_channels, start_mel, end_mel) ==
    FAdd(start_mel,
         FDiv(FMul(FSub(end_mel, start_mel), FromInt(i - 1)),
              FromInt(num_channels - 1)))

\* channel i, its band centred on freq
ChannelAt(freq, sample_rate) ==
    VocoderChannel_new(FMul(freq, FSub(F1, BandwidthParam)),
                       FMul(freq, FAdd(F1, BandwidthParam)),
                       sample_rate)

\* VocoderDSP::new never fails: it has no validation and no error result.
\* For num_channels = 0 the range 0..0 is empty, so num_channels - 1 is
\* never evaluated; for num_channels = 1 the spacing is 0.0 / 0.0.
VocoderDSP_new(num_channels, start_freq, end_freq, sample_rate) ==
    Bind(mel(start_freq), LAMBDA start_mel :
    Bind(mel(end_freq), LAMBDA end_mel :
    [peak_values |-> [i \in 1..num_channels |-> F1],
     energies |-> [i \in 1..num_channels |-> F0],
     channels |->
        [i \in 1..num_channels |->
            ChannelAt(mel_to_freq(ChannelMel(i, num_channels, start_mel, end_mel)),
                      sample_rate)],
     sample_rate |-> sample_rate]))

\* a faulty peak tracker with the comparison inverted
PeakUpdate_flipped(envelope, peak) ==
    IF FLt(envelope, peak) THEN envelope
    ELSE FMax(FMul(peak, PeakDecay), PeakFloor)

\* the peak tracker of one channel (the if/else of VocoderDSP::process)
PeakUpdate(envelope, peak) ==
    IF FGt(envelope, peak) THEN envelope
    ELSE FMax(FMul(peak, PeakDecay), PeakFloor)

\* a faulty normalisation with the operands of the division exchanged
Normalize_swapped(envelope, peak) == FClamp(FDiv(peak, envelope), F0, F1)

\* the energy written for one channel, from the updated peak
Normalize(envelope, peak) == FClamp(FDiv(envelope, peak), F0, F1)

\* a faulty loop body that normalises by the peak before its update
ChannelStep_stale_peak(self, i, sample) ==
    Bind(VocoderChannel_process(self.channels[i], sample), LAMBDA r :
    [channel |-> r.self,
     peak |-> PeakUpdate(r.out, self.peak_values[i]),
     energy |-> Normalize(r.out, self.peak_values[i])])

\* The body of the loop of VocoderDSP::process for channel i: the channel
\* after the sample, its peak and its energy.
ChannelStep(self, i, sample) ==
    Bind(VocoderChannel_process(self.channels[i], sample), LAMBDA r :
    Bind(PeakUpdate(r.out, self.peak_values[i]), LAMBDA peak :
    [channel |-> r.self, peak |-> peak, energy |-> Normalize(r.out, peak)]))

\* the loop over channels 1..n, in order
RECURSIVE ChannelSteps(_, _, _)
ChannelSteps(self, n, sample) ==
    IF n = 0 THEN <<>>
    ELSE Append(ChannelSteps(self, n - 1, sample), ChannelStep(self, n, sample))

\* a faulty store that pushes the energies instead of overwriting them
Store_push(self, done) ==
    [self EXCEPT
        !.channels = [i \in 1..Len(done) |-> done[i].channel],
        !.peak_values = [i \in 1..Len(done) |-> done[i].peak],
        !.energies = self.energies \o [i \in 1..Len(done) |-> done[i].energy]]

\* the analyzer with the results of the loop stored
Store(self, done) ==
    [self EXCEPT
        !.channels = [i \in 1..Len(done) |-> done[i].channel],
        !.peak_values = [i \in 1..Len(done) |-> done[i].peak],
        !.energies = [i \in 1..Len(done) |-> done[i].energy]]

VocoderDSP_process(self, sample) ==
    Store(self, ChannelSteps(self, Len(self.channels), sample))

\* a faulty process_buffer that feeds the samples last to first
RECURSIVE process_buffer_reversed(_, _)
process_buffer_reversed(self, samples) ==
    IF samples = <<>> THEN self
    ELSE VocoderDSP_process(process_buffer_reversed(self, Tail(samples)), Head(samples))

RECURSIVE VocoderDSP_process_buffer(_, _)
VocoderDSP_process_buffer(self, samples) ==
    IF samples = <<>> THEN self
    ELSE VocoderDSP_process_buffer(VocoderDSP_process(self, Head(samples)), Tail(samples))

VocoderDSP_num_channels(self) == Len(self.channels)

VocoderDSP_energies(self) == self.energies


(***************************************************************************)
(* The state.  Two programs are modelled.  An analyzer (Spec, SpecAnyCfg): *)
(* a VocoderDSP and the calls a client makes on it.  A test bench          *)
(* (SpecUnit): one BandpassIIR and one EnvelopeFollower driven directly,   *)
(* with their reset methods, which the analyzer never calls.  The          *)
(* simulator (SpecSim, src/simulator/src/main.rs): the audio callback and  *)
(* the render loop, two threads sharing dsp behind one mutex and the       *)
(* SharedState behind another.                                             *)
(***************************************************************************)
VARIABLES
    cfg,        \* the arguments VocoderDSP::new was called with
    dsp,        \* the VocoderDSP
    ret,        \* the slice the last call on dsp returned
    buf,        \* the samples of the last call on dsp
    ref,        \* a second analyzer, driven by process alone
    fed,        \* how many samples of buf ref has been fed
    steps,      \* samples fed to dsp, counted up to MaxSteps
    silent,     \* every sample fed to dsp so far was 0.0
    flt,        \* the BandpassIIR on the bench
    fout,       \* what its last process returned
    twin,       \* a filter constructed anew when flt was last reset
    tout,       \* what twin's last process returned
    synced,     \* flt has been reset (and twin constructed)
    stale,      \* flt held a non-zero history when it was last reset
    env,        \* the EnvelopeFollower on the bench
    lastv,      \* its value before its last call
    lastx,      \* the input of its last process (0.0 for reset)
    usteps,     \* calls made on the bench, counted up to MaxUnitSteps
    channels,       \* the input stream's channel count
    analyzer_lock,  \* who holds the mutex around dsp: "free" or "audio"
    shared_lock,    \* who holds the mutex around shared: "free", "audio", "render"
    shared,         \* the SharedState: energies and peak_level
    apc,            \* where the audio thread is
    data,           \* the audio callback's data
    frame,          \* how many frames of data the callback has processed
    cb_peak,        \* the callback's local peak
    copied,         \* how many energies copy_from_slice has copied
    rpc,            \* where the render loop is
    cloned,         \* what clone() has copied so far
    energies,       \* the render loop's energies, the finished clone
    ends,           \* dsp's energies as they stood at the end of each callback
    calls           \* audio callbacks started, counted up to MaxCallbacks

vars == <<cfg, dsp, ret, buf, ref, fed, steps, silent,
          flt, fout, twin, tout, synced, stale, env, lastv, lastx, usteps,
          channels, analyzer_lock, shared_lock, shared, apc, data, frame, cb_peak,
          copied, rpc, cloned, energies, ends, calls>>
dspVars == <<cfg, dsp, ret, buf, ref, fed, steps, silent>>
unitVars == <<flt, fout, twin, tout, synced, stale, env, lastv, lastx, usteps>>
simVars == <<channels, analyzer_lock, shared_lock, shared, apc, data, frame,
             cb_peak, copied, rpc, cloned, energies, ends, calls>>

\* calls with arbitrary samples explored from construction
MaxSteps == 3
\* longest buffer handed to process_buffer
MaxBuf == 2
\* calls explored on the bench
MaxUnitSteps == 4
\* audio callbacks explored in the simulator
MaxCallbacks == 2
\* longest data slice handed to an audio callback
MaxData == 2

Config(n, start, end, rate) ==
    [num_channels |-> n, start_freq |-> start, end_freq |-> end, sample_rate |-> rate]

\* configurations meeting the constructor's contract
\* (num_channels >= 2, 0 < start < end < Nyquist, every band edge < Nyquist)
ValidConfigs == {Config(2, 100, 3000, 44100), Config(3, 100, 3000, 44100)}

\* configurations violating it: too few channels, end >= Nyquist
InvalidConfigs ==
    {Config(0, 100, 3000, 44100), Config(1, 100, 3000, 44100),
     Config(2, 100, 22050, 44100)}

ValidConfig(c) ==
    /\ c.num_channels >= 2
    /\ 0 < c.start_freq
    /\ c.start_freq < c.end_freq
    /\ 2 * c.end_freq < c.sample_rate

Construct(c) ==
    VocoderDSP_new(c.num_channels, FromInt(c.start_freq), FromInt(c.end_freq),
                   FromInt(c.sample_rate))

\* a sample far outside the nominal range [-1, 1]
Loud == FromInt(16384)

\* the samples a caller may pass: any f32
Samples == {F0, F1, FNeg(Lit(1, 2)), Loud, Inf(0), NaN}

Buffers == UNION {[1..k -> Samples] : k \in 0..MaxBuf}

\* the band edges and the rate of the filter on the bench
BenchLow == FMul(FromInt(3000), FSub(F1, BandwidthParam))
BenchHigh == FMul(FromInt(3000), FAdd(F1, BandwidthParam))
BenchRate == FromInt(44100)

FilterInputs == {F0, F1, FNeg(Lit(1, 2)), NaN}

EnvelopeInputs == {F0, F1, FNeg(Lit(1, 2)), Lit(125, 128), Inf(0), NaN}

InitUnit ==
    /\ flt = BandpassIIR_new(BenchLow, BenchHigh, BenchRate)
    /\ fout = F0
    /\ twin = BandpassIIR_new(BenchLow, BenchHigh, BenchRate)
    /\ tout = F0
    /\ synced = FALSE
    /\ stale = FALSE
    /\ env = EnvelopeFollower_new(BenchRate, F1, FromInt(25))
    /\ lastv = F0
    /\ lastx = F0
    /\ usteps = 0

\* SharedState::new
SharedState_new(num_channels) ==
    [energies |-> [i \in 1..num_channels |-> F0], peak_level |-> F0]

\* main, up to stream.play() and the first pass of the render loop
InitSim(chans) ==
    /\ channels \in chans
    /\ analyzer_lock = "free"
    /\ shared_lock = "free"
    /\ shared = SharedState_new(cfg.num_channels)
    /\ apc = "idle"
    /\ data = <<>>
    /\ frame = 0
    /\ cb_peak = F0
    /\ copied = 0
    /\ rpc = "lock"
    /\ cloned = <<>>
    /\ energies = SharedState_new(cfg.num_channels).energies
    /\ ends = {}
    /\ calls = 0

InitAll(configs, chans) ==
    /\ cfg \in configs
    /\ dsp = Construct(cfg)
    /\ ret = VocoderDSP_energies(dsp)
    /\ buf = <<>>
    /\ ref = dsp
    /\ fed = 0
    /\ steps = 0
    /\ silent = TRUE
    /\ InitUnit
    /\ InitSim(chans)

InitWith(configs) == InitAll(configs, {1})

Init == InitWith(ValidConfigs)

InitBench == InitWith({Config(2, 100, 3000, 44100)})

InitAnyCfg == InitWith(ValidConfigs \cup InvalidConfigs)

Count(n, k) == IF n + k < MaxSteps THEN n + k ELSE MaxSteps

\* dsp.process(sample); ref copies dsp.  Silence may go on past MaxSteps:
\* the peaks need tens of thousands of samples to decay to their floor.
Process(sample) ==
    /\ fed = Len(buf)
    /\ steps < MaxSteps \/ (silent /\ sample = F0)
    /\ dsp' = VocoderDSP_process(dsp, sample)
    /\ ret' = dsp'.energies
    /\ buf' = <<sample>>
    /\ ref' = dsp'
    /\ fed' = 1
    /\ steps' = Count(steps, 1)
    /\ silent' = (silent /\ sample = F0)
    /\ UNCHANGED cfg
    /\ UNCHANGED <<unitVars, simVars>>

\* dsp.process_buffer(samples); ref stays behind in the state before the
\* call and is owed the same samples, one process call each
ProcessBuffer(samples) ==
    /\ fed = Len(buf)
    /\ steps < MaxSteps
    /\ steps + Len(samples) <= MaxSteps
    /\ dsp' = VocoderDSP_process_buffer(dsp, samples)
    /\ ret' = dsp'.energies
    /\ buf' = samples
    /\ ref' = dsp
    /\ fed' = 0
    /\ steps' = Count(steps, Len(samples))
    /\ silent' = (silent /\ \A i \in 1..Len(samples) : samples[i] = F0)
    /\ UNCHANGED cfg
    /\ UNCHANGED <<unitVars, simVars>>

\* ref.process(the next sample of buf)
RefProcess ==
    /\ fed < Len(buf)
    /\ ref' = VocoderDSP_process(ref, buf[fed + 1])
    /\ fed' = fed + 1
    /\ UNCHANGED <<cfg, dsp, ret, buf, steps, silent>>
    /\ UNCHANGED <<unitVars, simVars>>

UCount == IF usteps < MaxUnitSteps THEN usteps + 1 ELSE usteps

\* flt.process(input); once flt has been reset, twin is fed the same input
FilterProcess(input) ==
    /\ usteps < MaxUnitSteps
    /\ LET f == BandpassIIR_process(flt, input)
           t == BandpassIIR_process(twin, input)
       IN /\ flt' = f.self
          /\ fout' = f.out
          /\ twin' = IF synced THEN t.self ELSE twin
          /\ tout' = IF synced THEN t.out ELSE tout
    /\ usteps' = UCount
    /\ UNCHANGED <<synced, stale, env, lastv, lastx>>
    /\ UNCHANGED <<dspVars, simVars>>

\* flt.reset(), and a fresh filter with the same edges to compare it with
FilterReset ==
    /\ usteps < MaxUnitSteps
    /\ flt' = BandpassIIR_reset(flt)
    /\ twin' = BandpassIIR_new(BenchLow, BenchHigh, BenchRate)
    /\ fout' = F0
    /\ tout' = F0
    /\ synced' = TRUE
    /\ stale' = (flt.x # <<F0, F0, F0>> /\ flt.y # <<F0, F0>>)
    /\ usteps' = UCount
    /\ UNCHANGED <<env, lastv, lastx>>
    /\ UNCHANGED <<dspVars, simVars>>

\* env.process(input); the input may also be the follower's own value
EnvelopeProcess(input) ==
    /\ usteps < MaxUnitSteps
    /\ env' = EnvelopeFollower_process(env, input).self
    /\ lastv' = EnvelopeFollower_value(env)
    /\ lastx' = input
    /\ usteps' = UCount
    /\ UNCHANGED <<flt, fout, twin, tout, synced, stale>>
    /\ UNCHANGED <<dspVars, simVars>>

\* env.reset()
EnvelopeReset ==
    /\ usteps < MaxUnitSteps
    /\ env' = EnvelopeFollower_reset(env)
    /\ lastv' = EnvelopeFollower_value(env)
    /\ lastx' = F0
    /\ usteps' = UCount
    /\ UNCHANGED <<flt, fout, twin, tout, synced, stale>>
    /\ UNCHANGED <<dspVars, simVars>>

(***************************************************************************)
(* The simulator's two threads (main.rs).  A mutex is taken in one step    *)
(* and a thread waits while another holds it; copy_from_slice and clone    *)
(* move one element per step.                                              *)
(***************************************************************************)
\* what the input stream may deliver
AudioSamples == {F1, Loud}
DataSlices == UNION {[1..k -> AudioSamples] : k \in 0..MaxData}

\* data.chunks(channels): the number of chunks and the k-th one; the last
\* chunk is shorter when the length is no multiple of channels
NumChunks(d, ch) == (Len(d) + ch - 1) \div ch
Chunk(d, ch, k) == SubSeq(d, (k - 1) * ch + 1, IF k * ch < Len(d) THEN k * ch ELSE Len(d))

\* frame.iter().sum::<f32>()
RECURSIVE FrameSum(_)
FrameSum(fr) == IF fr = <<>> THEN F0 ELSE FAdd(FrameSum(SubSeq(fr, 1, Len(fr) - 1)), fr[Len(fr)])

\* the sample of one frame: the channels' mean, or the only channel
Mixdown(fr, ch) == IF ch > 1 THEN FDiv(FrameSum(fr), FromInt(ch)) ELSE fr[1]

\* the audio host calls audio_callback(data, _)
AudioCallback(d) ==
    /\ apc = "idle"
    /\ calls < MaxCallbacks
    /\ data' = d
    /\ calls' = calls + 1
    /\ apc' = "lock_analyzer"
    /\ UNCHANGED <<channels, analyzer_lock, shared_lock, shared, frame, cb_peak,
                   copied, rpc, cloned, energies, ends>>
    /\ UNCHANGED <<dspVars, unitVars>>

\* let mut analyzer = analyzer_audio.lock().unwrap()
AudioLockAnalyzer ==
    /\ apc = "lock_analyzer"
    /\ analyzer_lock = "free"
    /\ analyzer_lock' = "audio"
    /\ apc' = "lock_shared"
    /\ UNCHANGED <<channels, shared_lock, shared, data, frame, cb_peak, copied,
                   rpc, cloned, energies, ends, calls>>
    /\ UNCHANGED <<dspVars, unitVars>>

\* let mut shared = shared_audio.lock().unwrap(); let mut peak = 0.0
AudioLockShared ==
    /\ apc = "lock_shared"
    /\ shared_lock = "free"
    /\ shared_lock' = "audio"
    /\ cb_peak' = F0
    /\ frame' = 0
    /\ apc' = "frames"
    /\ UNCHANGED <<channels, analyzer_lock, shared, data, copied, rpc, cloned,
                   energies, ends, calls>>
    /\ UNCHANGED <<dspVars, unitVars>>

\* one pass of the loop over data.chunks(channels)
AudioFrame ==
    /\ apc = "frames"
    /\ frame < NumChunks(data, channels)
    /\ LET sample == Mixdown(Chunk(data, channels, frame + 1), channels)
       IN /\ cb_peak' = FMax(cb_peak, FAbs(sample))
          /\ dsp' = VocoderDSP_process(dsp, sample)
    /\ frame' = frame + 1
    /\ UNCHANGED <<channels, analyzer_lock, shared_lock, shared, apc, data, copied,
                   rpc, cloned, energies, ends, calls>>
    /\ UNCHANGED <<cfg, ret, buf, ref, fed, steps, silent>>
    /\ UNCHANGED unitVars

\* the loop is over: shared.energies.copy_from_slice(analyzer.energies())
\* begins (the two lengths are equal, so it does not panic)
AudioFramesDone ==
    /\ apc = "frames"
    /\ frame = NumChunks(data, channels)
    /\ Len(shared.energies) = Len(VocoderDSP_energies(dsp))
    /\ copied' = 0
    /\ apc' = "copy"
    /\ UNCHANGED <<channels, analyzer_lock, shared_lock, shared, data, frame,
                   cb_peak, rpc, cloned, energies, ends, calls>>
    /\ UNCHANGED <<dspVars, unitVars>>

\* copy_from_slice copies the next element
AudioCopy ==
    /\ apc = "copy"
    /\ copied < Len(shared.energies)
    /\ shared' = [shared EXCEPT !.energies[copied + 1] =
                                    VocoderDSP_energies(dsp)[copied + 1]]
    /\ copied' = copied + 1
    /\ UNCHANGED <<channels, analyzer_lock, shared_lock, apc, data, frame, cb_peak,
                   rpc, cloned, energies, ends, calls>>
    /\ UNCHANGED <<dspVars, unitVars>>

\* shared.peak_level = shared.peak_level * 0.9 + peak * 0.1
AudioPeakLevel ==
    /\ apc = "copy"
    /\ copied = Len(shared.energies)
    /\ shared' = [shared EXCEPT !.peak_level =
                      FAdd(FMul(shared.peak_level, Lit(9, 10)), FMul(cb_peak, Lit(1, 10)))]
    /\ apc' = "unlock_shared"
    /\ UNCHANGED <<channels, analyzer_lock, shared_lock, data, frame, cb_peak,
                   copied, rpc, cloned, energies, ends, calls>>
    /\ UNCHANGED <<dspVars, unitVars>>

\* the closure returns: the guard shared is dropped first
AudioUnlockShared ==
    /\ apc = "unlock_shared"
    /\ shared_lock' = "free"
    /\ ends' = ends \cup {VocoderDSP_energies(dsp)}
    /\ apc' = "unlock_analyzer"
    /\ UNCHANGED <<channels, analyzer_lock, shared, data, frame, cb_peak, copied,
                   rpc, cloned, energies, calls>>
    /\ UNCHANGED <<dspVars, unitVars>>

\* then the guard analyzer
AudioUnlockAnalyzer ==
    /\ apc = "unlock_analyzer"
    /\ analyzer_lock' = "free"
    /\ apc' = "idle"
    /\ UNCHANGED <<channels, shared_lock, shared, data, frame, cb_peak, copied,
                   rpc, cloned, energies, ends, calls>>
    /\ UNCHANGED <<dspVars, unitVars>>

\* a faulty render loop that reads shared without taking its mutex
RenderLock_no_mutex ==
    /\ rpc = "lock"
    /\ cloned' = <<>>
    /\ rpc' = "clone"
    /\ UNCHANGED <<channels, analyzer_lock, shared_lock, shared, apc, data, frame,
                   cb_peak, copied, energies, ends, calls>>
    /\ UNCHANGED <<dspVars, unitVars>>

\* let shared = shared.lock().unwrap()
RenderLock ==
    /\ rpc = "lock"
    /\ shared_lock = "free"
    /\ shared_lock' = "render"
    /\ cloned' = <<>>
    /\ rpc' = "clone"
    /\ UNCHANGED <<channels, analyzer_lock, shared, apc, data, frame, cb_peak,
                   copied, energies, ends, calls>>
    /\ UNCHANGED <<dspVars, unitVars>>

\* shared.energies.clone() copies the next element
RenderClone ==
    /\ rpc = "clone"
    /\ Len(cloned) < Len(shared.energies)
    /\ cloned' = Append(cloned, shared.energies[Len(cloned) + 1])
    /\ UNCHANGED <<channels, analyzer_lock, shared_lock, shared, apc, data, frame,
                   cb_peak, copied, rpc, energies, ends, calls>>
    /\ UNCHANGED <<dspVars, unitVars>>

\* the block ends: the guard is dropped and energies holds the clone
RenderUnlock ==
    /\ rpc = "clone"
    /\ Len(cloned) = Len(shared.energies)
    /\ shared_lock' = "free"
    /\ energies' = cloned
    /\ rpc' = "frame"
    /\ UNCHANGED <<channels, analyzer_lock, shared, apc, data, frame, cb_peak,
                   copied, cloned, ends, calls>>
    /\ UNCHANGED <<dspVars, unitVars>>

\* the rest of the loop body: visualizer.update, render, window update
RenderFrame ==
    /\ rpc = "frame"
    /\ rpc' = "lock"
    /\ UNCHANGED <<channels, analyzer_lock, shared_lock, shared, apc, data, frame,
                   cb_peak, copied, cloned, energies, ends, calls>>
    /\ UNCHANGED <<dspVars, unitVars>>

NextSim ==
    \/ \E d \in DataSlices : AudioCallback(d)
    \/ AudioLockAnalyzer
    \/ AudioLockShared
    \/ AudioFrame
    \/ AudioFramesDone
    \/ AudioCopy
    \/ AudioPeakLevel
    \/ AudioUnlockShared
    \/ AudioUnlockAnalyzer
    \/ RenderLock
    \/ RenderClone
    \/ RenderUnlock
    \/ RenderFrame

InitSimulator == InitAll({Config(2, 100, 3000, 44100)}, {1, 2})

Next ==
    \/ \E sample \in Samples : Process(sample)
    \/ \E samples \in Buffers : ProcessBuffer(samples)
    \/ RefProcess

NextUnit ==
    \/ \E input \in EnvelopeInputs \cup {env.value} : EnvelopeProcess(input)
    \/ EnvelopeReset
    \/ \E input \in FilterInputs : FilterProcess(input)
    \/ FilterReset

Spec == Init /\ [][Next]_vars

SpecAnyCfg == InitAnyCfg /\ [][Next]_vars

SpecUnit == InitBench /\ [][NextUnit]_vars

SpecSim == InitSimulator /\ [][NextSim]_vars

(***************************************************************************)
(* Properties.                                                             *)
(***************************************************************************)
FMin(a, b) == IF FLt(b, a) THEN b ELSE a
InUnit(e) == FLe(F0, e) /\ FLe(e, F1)
Channels(self) == 1..Len(self.channels)
\* an energy no larger than this counts as negligible
Eps == Lit(1, 1000000)

\* C1: in every state reachable from VocoderDSP::new by process and
\* process_buffer calls with any samples, every energy (as returned by the
\* last call and by energies()) lies in [0, 1].
C1_EnergiesInUnitInterval ==
    /\ \A i \in DOMAIN ret : InUnit(ret[i])
    /\ \A i \in DOMAIN VocoderDSP_energies(dsp) : InUnit(VocoderDSP_energies(dsp)[i])

\* C2: in every state reachable from VocoderDSP::new by process and
\* process_buffer calls, every channel's peak is at least the floor 0.001,
\* so the divisor of envelope / peak is never zero or negative.
C2_PeakAtLeastFloor ==
    /\ \A i \in DOMAIN dsp.peak_values : FLe(PeakFloor, dsp.peak_values[i])
    /\ \A i \in DOMAIN ref.peak_values : FLe(PeakFloor, ref.peak_values[i])

\* a peak has decayed all the way down and is held by the floor
C2_Witness ==
    /\ steps = MaxSteps
    /\ \E i \in DOMAIN dsp.peak_values : dsp.peak_values[i] = PeakFloor

\* C3: process_buffer(samples) leaves the analyzer in the same state and
\* returns the same energies as one process call per sample, in order:
\* once ref has been fed every sample of buf, ref equals dsp.
C3_BufferEqualsSequential ==
    fed = Len(buf) => ref = dsp /\ ret = VocoderDSP_energies(ref)

\* process_buffer took two different samples and ref has caught up
C3_Witness ==
    /\ Len(buf) >= 2
    /\ fed = Len(buf)
    /\ buf[1] # buf[2]
    /\ \E i \in DOMAIN ret : ret[i] # F0

\* C4: after reset() a filter is indistinguishable from a freshly
\* constructed one: fed the same inputs, the two hold the same state and
\* return the same outputs, sample for sample.
C4_ResetEqualsFresh == synced => flt = twin /\ fout = tout

\* a filter with a non-zero history was reset and has since processed
\* two samples
C4_Witness ==
    /\ synced
    /\ stale
    /\ fout # F0
    /\ flt.y[2] # F0

\* C5: construction with an invalid configuration fails; it never returns
\* an analyzer that process then accepts a sample on.
C5_InvalidConfigNeverProcessed == ValidConfig(cfg) \/ steps = 0

\* C6: process(x) yields a value v' with min(v, |x|) <= v' <= max(v, |x|),
\* v the value before the call, and the value is never negative after any
\* sequence of process and reset calls.  Stated here for x and v that are
\* not NaN.
C6_ValueBetween ==
    (~IsNaN(lastx) /\ ~IsNaN(lastv)) =>
        /\ FLe(FMin(lastv, FAbs(lastx)), env.value)
        /\ FLe(env.value, FMax(lastv, FAbs(lastx)))
        /\ FLe(F0, env.value)

\* C7: fed only zero samples from construction, after every call the
\* energies have length N and lie in [0, Eps], and every peak decays from
\* 1.0 (strictly, until the floor holds it) and stays at or above the floor.
C7_SilenceStaysNegligible ==
    [][silent' =>
        /\ Len(ret') = cfg.num_channels
        /\ \A i \in DOMAIN ret' : FLe(F0, ret'[i]) /\ FLe(ret'[i], Eps)
        /\ \A i \in DOMAIN dsp.peak_values :
              /\ FLe(PeakFloor, dsp'.peak_values[i])
              /\ FLe(dsp'.peak_values[i], dsp.peak_values[i])
              /\ FLe(dsp.peak_values[i], F1)
              /\ \/ dsp' = dsp
                 \/ dsp'.peak_values[i] = PeakFloor
                 \/ FLt(dsp'.peak_values[i], dsp.peak_values[i])]_vars

\* after a long silence every peak rests on the floor, every energy is zero
C7_Witness ==
    /\ silent
    /\ cfg.num_channels = 3
    /\ Len(ret) = 3
    /\ \A i \in DOMAIN dsp.peak_values :
          dsp.peak_values[i] = PeakFloor /\ ret[i] = F0

\* C8: the channels, the peaks and the energies all have length N, the
\* configured channel count, equal to num_channels(), in every reachable
\* state.
C8_LengthsFixed ==
    /\ Len(dsp.channels) = cfg.num_channels
    /\ Len(dsp.peak_values) = cfg.num_channels
    /\ Len(dsp.energies) = cfg.num_channels
    /\ VocoderDSP_num_channels(dsp) = cfg.num_channels
    /\ Len(ret) = cfg.num_channels

\* a three-channel analyzer after MaxSteps samples, the last ones by
\* process_buffer
C8_Witness ==
    /\ cfg.num_channels = 3
    /\ steps = MaxSteps
    /\ ~silent
    /\ Len(buf) = 2
    /\ VocoderDSP_num_channels(dsp) = 3

\* what one process call does to channel i's peak and energy, envelope
\* being the channel's new envelope value
PeakRule(before, after, i) ==
    LET envelope == EnvelopeFollower_value(after.channels[i].envelope)
        peak == before.peak_values[i]
        updated == after.peak_values[i]
    IN /\ FGt(envelope, peak) => updated = envelope
       /\ ~FGt(envelope, peak) =>
             /\ updated = FMax(FMul(peak, PeakDecay), PeakFloor)
             /\ FLe(updated, peak)
       /\ after.energies[i] = FClamp(FDiv(envelope, updated), F0, F1)

\* C9: in each process call, for each channel: if the new envelope is
\* strictly greater than the peak, the peak becomes the envelope, otherwise
\* max(peak * 0.9999, 0.001), which is no larger than the peak; the energy
\* is the envelope divided by the updated peak, clamped to [0, 1].
C9_PeakRule ==
    [][/\ (fed = Len(buf) /\ fed' = 1 /\ Len(buf') = 1) =>
            \A i \in Channels(dsp) : PeakRule(dsp, dsp', i)
       /\ (fed < Len(buf) /\ fed' = fed + 1) =>
            \A i \in Channels(ref) : PeakRule(ref, ref', i)]_vars

\* one channel's peak rose above 1.0 while another one's energy is
\* strictly between 0 and 1, normalised by a decayed peak
C9_Witness ==
    /\ fed = Len(buf)
    /\ Len(buf) = 1
    /\ \E i \in Channels(dsp) : FGt(dsp.peak_values[i], F1)
    /\ \E i \in Channels(dsp) :
          /\ FLt(dsp.peak_values[i], F1)
          /\ FLt(F0, dsp.energies[i])
          /\ FLt(dsp.energies[i], F1)

\* C10: no process or reset call changes a coefficient: the filter's b
\* and a, the follower's attack, release and their complements.
C10_CoefficientsFixed ==
    [][/\ flt'.b = flt.b
       /\ flt'.a = flt.a
       /\ env'.attack = env.attack
       /\ env'.release = env.release
       /\ env'.attack_comp = env.attack_comp
       /\ env'.release_comp = env.release_comp]_vars

\* both resets have been called on a filter and a follower that had
\* processed non-zero samples
C10_Witness ==
    /\ synced
    /\ stale
    /\ lastv # F0
    /\ env.value = F0
    /\ flt.b = twin.b

\* the vectors the render loop may see: the initial zeros, or dsp's
\* energies as they stood at the end of a callback
Snapshots == ends \cup {SharedState_new(cfg.num_channels).energies}

\* a thread is blocked when it stands before a mutex it cannot take
AudioBlocked ==
    /\ apc \in {"lock_analyzer", "lock_shared"}
    /\ ~ENABLED (AudioLockAnalyzer \/ AudioLockShared)
RenderBlocked == rpc = "lock" /\ ~ENABLED RenderLock

\* a blocked render loop waits for a callback that is under way and not
\* itself blocked; a blocked callback waits for a running render loop
NoDeadlock ==
    /\ RenderBlocked => apc # "idle" /\ ~AudioBlocked
    /\ AudioBlocked => ~RenderBlocked

\* C11: under every interleaving of the audio callback and the render
\* loop, the render loop's cloned vector is the initial all-zero vector or
\* the complete energies vector of the end of one audio callback, never a
\* mix, and the two threads never deadlock.
C11_SnapshotOrInitial ==
    /\ energies \in Snapshots
    /\ NoDeadlock

\* the render loop holds the energies of a finished callback and waits
\* for the mutex while the next callback is half-way through its copy,
\* shared.energies being a mix of two callbacks
C11_Witness ==
    /\ rpc = "lock"
    /\ shared_lock = "audio"
    /\ apc = "copy"
    /\ copied = 1
    /\ shared.energies \notin Snapshots
    /\ energies \in ends
    /\ energies # SharedState_new(cfg.num_channels).energies

====
